---- MODULE Spec2Model ----
(***************************************************************************)
(* A model of the textbook RSA package: the Miller-Rabin primality test,   *)
(* the prime generator, the modular inverse, the keypair builder, the four *)
(* modular-exponentiation transforms and the PEM-like key codec.           *)
(*                                                                         *)
(* The random source (random.randrange, random.getrandbits) is a           *)
(* nondeterministic choice over every value it can return.  Text is a      *)
(* sequence of ASCII codes.                                                *)
(***************************************************************************)
EXTENDS Integers, Sequences, FiniteSets

VARIABLES
    op,           \* the top-level call being run
    pc,           \* the control location inside it
    err,          \* the exception that ended the call ("" while there is none)
    bits,         \* generate_keypair's / generate_prime's argument
    site,         \* which generate_prime call of generate_keypair is running
    n,            \* is_prime's argument; generate_prime's candidate
    rounds,       \* witness-loop iterations of is_prime completed
    a,            \* the witness is_prime drew last
    ret,          \* is_prime's return value
    p, q,         \* generate_keypair's primes
    phi, e, d,    \* totient, exponents (also mod_inverse's arguments and result)
    public_key,   \* generate_keypair's first result
    private_key,  \* generate_keypair's second result
    message,      \* the integer given to encrypt / sign
    ciphertext,   \* encrypt's result
    decrypted,    \* decrypt's result
    signature,    \* sign's result
    claimed,      \* the message given to verify_signature
    is_valid,     \* verify_signature's result
    key,          \* the key given to save_key_to_pem
    is_private,   \* save_key_to_pem's flag
    pem_str,      \* the text given to load_key_from_pem
    loaded        \* load_key_from_pem's result

vars == <<op, pc, err, bits, site, n, rounds, a, ret, p, q, phi, e, d,
          public_key, private_key, message, ciphertext, decrypted, signature,
          claimed, is_valid, key, is_private, pem_str, loaded>>

primeVars == <<n, rounds, a, ret>>
keyVars == <<bits, site, p, q, phi, e, d, public_key, private_key>>
transformVars == <<message, ciphertext, decrypted, signature, claimed, is_valid>>
codecVars == <<key, is_private, pem_str, loaded>>

-----------------------------------------------------------------------------
(* Bounds of the model. *)

\* is_prime is run on every n in 0..MaxN.
MaxN == 130
\* generate_prime is run on every bit length in 0..MaxPrimeBits.
MaxPrimeBits == 5
\* generate_keypair is run on every size in 0..MaxBits.
MaxBits == 11
\* mod_inverse is run on every e in 1..MaxArg and phi in 2..MaxArg.
MaxArg == 40
\* The codec is run on every key with fields in 0..MaxField.
MaxField == 5

(* Program constants. *)

\* is_prime's default number of rounds, k.
DefaultRounds == 5
\* generate_keypair's fixed public exponent.
DefaultExponent == 65537

-----------------------------------------------------------------------------
(* Arithmetic. *)

RSAKey(kn, ke, kd) == [n |-> kn, e |-> ke, d |-> kd]

NoKey == RSAKey(-1, -1, -1)

RECURSIVE gcd(_, _)
gcd(x, y) == IF y = 0 THEN x ELSE gcd(y, x % y)

\* pow(base, exp, mod) by square and multiply; exp >= 0, mod >= 1.
RECURSIVE pow(_, _, _)
pow(base, ex, md) ==
    IF ex = 0 THEN 1 % md
    ELSE LET h == pow(base, ex \div 2, md)
             s == (h * h) % md
         IN  IF ex % 2 = 1 THEN (s * (base % md)) % md ELSE s

RECURSIVE Pow2(_)
Pow2(i) == IF i <= 0 THEN 1 ELSE 2 * Pow2(i - 1)

-----------------------------------------------------------------------------
(* is_prime: the Miller-Rabin test. *)

\* n - 1 as 2^r * d: the halving loop, from (r, d) = (0, n - 1).
RECURSIVE Decompose(_, _)
Decompose(r, dd) ==
    IF dd % 2 = 0 THEN Decompose(r + 1, dd \div 2) ELSE [r |-> r, d |-> dd]

\* The inner for-loop: i squarings left; TRUE when it breaks on n - 1, FALSE
\* when it runs out (the for's else branch).
RECURSIVE InnerLoopBreaks(_, _, _)
InnerLoopBreaks(x, i, nn) ==
    IF i <= 0 THEN FALSE
    ELSE LET y == (x * x) % nn
         IN  IF y = nn - 1 THEN TRUE ELSE InnerLoopBreaks(y, i - 1, nn)

\* A mutant of RoundPasses: the first test forgets x == n - 1.
RoundPassesNoMinusOne(w, nn) ==
    LET rd == Decompose(0, nn - 1)
        x == pow(w, rd.d, nn)
    IN  x = 1 \/ InnerLoopBreaks(x, rd.r - 1, nn)

\* A mutant of RoundPasses: the inner loop's else branch does not return.
RoundPassesNoElse(w, nn) == TRUE

\* One iteration of the witness loop with witness w: TRUE when the loop goes
\* on to the next round, FALSE when is_prime returns False.
RoundPasses(w, nn) ==
    LET rd == Decompose(0, nn - 1)
        x == pow(w, rd.d, nn)
    IN  x = 1 \/ x = nn - 1 \/ InnerLoopBreaks(x, rd.r - 1, nn)

\* random.randrange(2, n - 1)
Witnesses(nn) == 2 .. (nn - 2)

\* The two early returns, or entry into the witness loop.
IsPrimeEntry ==
    /\ pc = "ip_entry"
    /\ IF n = 2 \/ n = 3
       THEN ret' = "True" /\ pc' = "ip_ret"
       ELSE IF n < 2 \/ n % 2 = 0
            THEN ret' = "False" /\ pc' = "ip_ret"
            ELSE ret' = "none" /\ pc' = "ip_loop"
    /\ rounds' = 0
    /\ a' = -1
    /\ UNCHANGED <<op, err, n>>
    /\ UNCHANGED <<keyVars, transformVars, codecVars>>

\* One iteration of "for _ in range(k)".
IsPrimeRound ==
    /\ pc = "ip_loop"
    /\ rounds < DefaultRounds
    /\ \E w \in Witnesses(n) :
          /\ a' = w
          /\ IF RoundPasses(w, n)
             THEN rounds' = rounds + 1 /\ ret' = ret /\ pc' = pc
             ELSE rounds' = rounds /\ ret' = "False" /\ pc' = "ip_ret"
    /\ UNCHANGED <<op, err, n>>
    /\ UNCHANGED <<keyVars, transformVars, codecVars>>

\* The loop ran k times: return True.
IsPrimeReturn ==
    /\ pc = "ip_loop"
    /\ rounds = DefaultRounds
    /\ ret' = "True"
    /\ pc' = "ip_ret"
    /\ UNCHANGED <<op, err, n, rounds, a>>
    /\ UNCHANGED <<keyVars, transformVars, codecVars>>

-----------------------------------------------------------------------------
(* Idle values of the parts a specification does not use. *)

PrimeIdle == n = -1 /\ rounds = 0 /\ a = -1 /\ ret = "none"

KeyIdle ==
    /\ bits = -1 /\ site = "none" /\ p = -1 /\ q = -1
    /\ phi = -1 /\ e = -1 /\ d = -1
    /\ public_key = NoKey /\ private_key = NoKey

TransformIdle ==
    /\ message = -1 /\ ciphertext = -1 /\ decrypted = -1
    /\ signature = -1 /\ claimed = -1 /\ is_valid = "none"

CodecIdle ==
    /\ key = NoKey /\ is_private = FALSE /\ pem_str = <<>>
    /\ loaded = NoKey

-----------------------------------------------------------------------------
(* is_prime(n) run on every n in 0..MaxN. *)

InitPrime ==
    /\ op = "is_prime" /\ pc = "ip_entry" /\ err = ""
    /\ n \in 0 .. MaxN
    /\ rounds = 0 /\ a = -1 /\ ret = "none"
    /\ KeyIdle /\ TransformIdle /\ CodecIdle

NextPrime == IsPrimeEntry \/ IsPrimeRound \/ IsPrimeReturn

SpecPrime == InitPrime /\ [][NextPrime]_vars

-----------------------------------------------------------------------------
(* Reference notions the claims are stated with. *)

\* Primality by trial division.
IsPrimeRef(m) == m >= 2 /\ \A f \in 2 .. (m - 1) : f * f > m \/ m % f # 0

IsCompositeRef(m) == m >= 4 /\ ~IsPrimeRef(m)

\* w is a Fermat liar for m: w^(m-1) = 1 (mod m).
FermatLiar(w, m) == pow(w, m - 1, m) = 1

Returned == pc = "ip_ret"

-----------------------------------------------------------------------------
(* C4: is_prime(n) with the default 5 rounds returns True for every prime n, *)
(* whatever witnesses in [2, n-2] are drawn: no round rejects a prime.      *)
C4_PrimesAccepted ==
    (op = "is_prime" /\ IsPrimeRef(n) /\ Returned) => ret = "True"

C4_Witness ==
    /\ op = "is_prime" /\ Returned /\ IsPrimeRef(n) /\ n > 100
    /\ rounds = DefaultRounds /\ ret = "True" /\ a = n - 2

-----------------------------------------------------------------------------
(* generate_prime: draw, force the end bits, test, redraw. *)

\* x | y on non-negative integers.
RECURSIVE BitOr(_, _)
BitOr(x, y) ==
    IF x = 0 THEN y
    ELSE IF y = 0 THEN x
    ELSE 2 * BitOr(x \div 2, y \div 2) + (IF x % 2 = 1 \/ y % 2 = 1 THEN 1 ELSE 0)

\* A mutant of Candidates: the top bit is not forced.
CandidatesNoTopBit(b) == { BitOr(v, 1) : v \in 0 .. (Pow2(b) - 1) }

\* random.getrandbits(b) | (1 << b - 1) | 1, for b >= 1.
Candidates(b) ==
    { BitOr(v, BitOr(Pow2(b - 1), 1)) : v \in 0 .. (Pow2(b) - 1) }

\* The bit length generate_prime is called with.
PrimeBits == IF op = "generate_keypair" THEN bits \div 2 ELSE bits

\* The loop body up to the call of is_prime.  1 << b - 1 raises ValueError
\* for b < 1 (negative shift count).
GenDraw ==
    /\ pc = "gp_draw"
    /\ IF PrimeBits < 1
       THEN n' = n /\ err' = "ValueError" /\ pc' = "raised"
       ELSE /\ n' \in Candidates(PrimeBits)
            /\ err' = err
            /\ pc' = "ip_entry"
    /\ UNCHANGED <<op, rounds, a, ret>>
    /\ UNCHANGED <<keyVars, transformVars, codecVars>>

\* "if is_prime(n): return n", else the next iteration of "while True".
GenTest ==
    /\ pc = "ip_ret"
    /\ op # "is_prime"
    /\ pc' = IF ret = "True" THEN "gp_ret" ELSE "gp_draw"
    /\ rounds' = 0 /\ a' = -1 /\ ret' = "none"
    /\ UNCHANGED <<op, err, n>>
    /\ UNCHANGED <<keyVars, transformVars, codecVars>>

-----------------------------------------------------------------------------
(* generate_prime(bits) run on every bits in 0..MaxPrimeBits. *)

InitGen ==
    /\ op = "generate_prime" /\ pc = "gp_draw" /\ err = ""
    /\ PrimeIdle
    /\ bits \in 0 .. MaxPrimeBits
    /\ site = "none" /\ p = -1 /\ q = -1 /\ phi = -1 /\ e = -1 /\ d = -1
    /\ public_key = NoKey /\ private_key = NoKey
    /\ TransformIdle /\ CodecIdle

NextGen == GenDraw \/ IsPrimeEntry \/ IsPrimeRound \/ IsPrimeReturn \/ GenTest

SpecGen == InitGen /\ [][NextGen]_vars

ExactBitLength(v, b) == Pow2(b - 1) <= v /\ v < Pow2(b)

-----------------------------------------------------------------------------
(* mod_inverse: the extended Euclidean algorithm. *)

\* extended_gcd(a, b) as the triple <<gcd, x, y>>.
RECURSIVE extended_gcd(_, _)
extended_gcd(x, y) ==
    IF x = 0 THEN <<y, 0, 1>>
    ELSE LET t == extended_gcd(y % x, x)
         IN  <<t[1], t[3] - (y \div x) * t[2], t[2]>>

\* A mutant of mod_inverse: the result is not reduced modulo phi.
mod_inverse_unreduced(ee, ph) == extended_gcd(ee, ph)[2]

\* A mutant of mod_inverse: the wrong Bezout coefficient is returned.
mod_inverse_other_coefficient(ee, ph) == extended_gcd(ee, ph)[3] % ph

mod_inverse(ee, ph) == extended_gcd(ee, ph)[2] % ph

\* The call mod_inverse(e, phi) on the arguments held in e and phi.
ModInverseCall ==
    /\ pc = "mi_entry"
    /\ d' = mod_inverse(e, phi)
    /\ pc' = "mi_ret"
    /\ UNCHANGED <<op, err, bits, site, p, q, phi, e, public_key, private_key>>
    /\ UNCHANGED <<primeVars, transformVars, codecVars>>

(* mod_inverse(e, phi) run on every coprime pair of 1..MaxArg x 2..MaxArg. *)

InitInverse ==
    /\ op = "mod_inverse" /\ pc = "mi_entry" /\ err = ""
    /\ PrimeIdle
    /\ bits = -1 /\ site = "none" /\ p = -1 /\ q = -1
    /\ e \in 1 .. MaxArg
    /\ phi \in 2 .. MaxArg
    /\ gcd(e, phi) = 1
    /\ d = -1
    /\ public_key = NoKey /\ private_key = NoKey
    /\ TransformIdle /\ CodecIdle

NextInverse == ModInverseCall

SpecInverse == InitInverse /\ [][NextInverse]_vars

(* C7: for e >= 1 and phi >= 2 with gcd(e, phi) = 1, e = 1 and e > phi      *)
(* included, mod_inverse(e, phi) returns x with 0 <= x < phi and            *)
(* (e * x) mod phi = 1.                                                     *)
C7_ModInverse ==
    (op = "mod_inverse" /\ pc = "mi_ret")
        => (0 <= d /\ d < phi /\ (e * d) % phi = 1)

C7_Witness ==
    /\ op = "mod_inverse" /\ pc = "mi_ret"
    /\ e > phi /\ d > 1 /\ extended_gcd(e, phi)[2] < 0

-----------------------------------------------------------------------------
(* generate_keypair and the four transforms. *)

\* random.randrange(3, phi, 2)
FallbackExponents(ph) == { x \in 3 .. (ph - 1) : x % 2 = 1 }

\* p = generate_prime(bits // 2) has returned.
KeypairTakeP ==
    /\ op = "generate_keypair"
    /\ pc = "gp_ret"
    /\ site = "p"
    /\ p' = n
    /\ n' = -1
    /\ site' = "q"
    /\ pc' = "gp_draw"
    /\ UNCHANGED <<op, err, bits, rounds, a, ret, q, phi, e, d, public_key, private_key>>
    /\ UNCHANGED <<transformVars, codecVars>>

\* q = generate_prime(bits // 2) has returned: the test of "while p == q",
\* and after the loop n = p * q, phi = (p - 1) * (q - 1), e = 65537.
KeypairTakeQ ==
    /\ op = "generate_keypair"
    /\ pc = "gp_ret"
    /\ site = "q"
    /\ q' = n
    /\ n' = -1
    /\ IF p = n
       THEN pc' = "gp_draw" /\ phi' = phi /\ e' = e
       ELSE /\ pc' = "kp_choose_e"
            /\ phi' = (p - 1) * (n - 1)
            /\ e' = DefaultExponent
    /\ UNCHANGED <<op, err, bits, site, rounds, a, ret, p, d, public_key, private_key>>
    /\ UNCHANGED <<transformVars, codecVars>>

\* The test of "while gcd(e, phi) != 1": a redraw of e (randrange raises
\* ValueError on an empty range), or the rest of the function.
KeypairChooseE ==
    /\ op = "generate_keypair"
    /\ pc = "kp_choose_e"
    /\ IF gcd(e, phi) # 1
       THEN IF FallbackExponents(phi) = {}
            THEN /\ err' = "ValueError" /\ pc' = "raised"
                 /\ UNCHANGED <<e, d, public_key, private_key>>
            ELSE /\ e' \in FallbackExponents(phi)
                 /\ UNCHANGED <<pc, err, d, public_key, private_key>>
       ELSE /\ d' = mod_inverse(e, phi)
            /\ public_key' = RSAKey(p * q, e, 0)
            /\ private_key' = RSAKey(p * q, e, mod_inverse(e, phi))
            /\ pc' = "kp_ret"
            /\ UNCHANGED <<e, err>>
    /\ UNCHANGED <<op, bits, site, p, q, phi>>
    /\ UNCHANGED <<primeVars, transformVars, codecVars>>

encrypt(m, pub) == pow(m, pub.e, pub.n)

\* A mutant of decrypt: the public exponent is used.
decrypt_with_e(c, priv) == pow(c, priv.e, priv.n)

decrypt(c, priv) == pow(c, priv.d, priv.n)

sign(m, priv) == pow(m, priv.d, priv.n)

\* A mutant of verify_signature: the signature itself is compared.
verify_signature_raw(m, s, pub) == s = m

verify_signature(m, s, pub) == pow(s, pub.e, pub.n) = m

\* The messages of a key: the integers in [0, n).
Messages(k) == 0 .. (k.n - 1)

Encrypt ==
    /\ pc = "kp_ret"
    /\ \E m \in Messages(public_key) :
          /\ message' = m
          /\ ciphertext' = encrypt(m, public_key)
    /\ pc' = "encrypted"
    /\ UNCHANGED <<op, err, decrypted, signature, claimed, is_valid>>
    /\ UNCHANGED <<primeVars, keyVars, codecVars>>

Decrypt ==
    /\ pc = "encrypted"
    /\ decrypted' = decrypt(ciphertext, private_key)
    /\ pc' = "decrypted"
    /\ UNCHANGED <<op, err, message, ciphertext, signature, claimed, is_valid>>
    /\ UNCHANGED <<primeVars, keyVars, codecVars>>

Sign ==
    /\ pc = "kp_ret"
    /\ \E m \in Messages(private_key) :
          /\ message' = m
          /\ signature' = sign(m, private_key)
    /\ pc' = "signed"
    /\ UNCHANGED <<op, err, ciphertext, decrypted, claimed, is_valid>>
    /\ UNCHANGED <<primeVars, keyVars, codecVars>>

\* The messages a signature is verified against: the signed one, its
\* neighbours modulo n, the ends of [0, n), and the one the signature opens to.
ClaimedMessages ==
    LET nn == public_key.n
    IN  { message, (message + 1) % nn, (message + nn - 1) % nn, 0, nn - 1,
          encrypt(signature, public_key) }

Verify ==
    /\ pc = "signed"
    /\ \E m \in ClaimedMessages :
          /\ claimed' = m
          /\ is_valid' = IF verify_signature(m, signature, public_key)
                         THEN "True" ELSE "False"
    /\ pc' = "verified"
    /\ UNCHANGED <<op, err, message, ciphertext, decrypted, signature>>
    /\ UNCHANGED <<primeVars, keyVars, codecVars>>

(* generate_keypair(bits) run on every bits in 0..MaxBits, then one         *)
(* encrypt/decrypt or sign/verify_signature with the pair returned.         *)

InitKey ==
    /\ op = "generate_keypair" /\ pc = "gp_draw" /\ err = ""
    /\ PrimeIdle
    /\ bits \in 0 .. MaxBits
    /\ site = "p" /\ p = -1 /\ q = -1 /\ phi = -1 /\ e = -1 /\ d = -1
    /\ public_key = NoKey /\ private_key = NoKey
    /\ TransformIdle /\ CodecIdle

NextKeygen ==
    \/ GenDraw \/ IsPrimeEntry \/ IsPrimeRound \/ IsPrimeReturn \/ GenTest
    \/ KeypairTakeP \/ KeypairTakeQ \/ KeypairChooseE

NextKey == NextKeygen \/ Encrypt \/ Decrypt \/ Sign \/ Verify

SpecKey == InitKey /\ [][NextKey]_vars

\* The program is sequential: a call that can take a step takes it.
FairKeygen == InitKey /\ [][NextKeygen]_vars /\ WF_vars(NextKeygen)

BothPrime == IsPrimeRef(p) /\ IsPrimeRef(q)

(* C1 as stated: for every keypair generate_keypair returns and every m in  *)
(* [0, n), decrypt(encrypt(m, public), private) = m.                        *)
C1_RoundTrip ==
    pc = "decrypted" => decrypted = message

(* C1 amended: for every keypair generate_keypair returns whose p and q are *)
(* both prime, and every m in [0, n), decrypt(encrypt(m, public), private)  *)
(* = m.  A composite that passed all 5 Miller-Rabin rounds (p = 25) can     *)
(* break the round trip.                                                    *)
C1_RoundTripOfPrimes ==
    (pc = "decrypted" /\ BothPrime) => decrypted = message

C1_Witness ==
    /\ pc = "decrypted" /\ BothPrime /\ bits = MaxBits
    /\ message > 1 /\ ciphertext # message /\ decrypted = message

(* C2 as stated: for every keypair generate_keypair returns and all m, m'   *)
(* in [0, n), verify_signature(m, sign(m', private), public) is true        *)
(* exactly when m = m'.                                                     *)
C2_VerifyIffSigned ==
    pc = "verified" => ((is_valid = "True") <=> (claimed = message))

(* C2 amended: for every keypair generate_keypair returns whose p and q are *)
(* both prime, and all m, m' in [0, n), verify_signature(m, sign(m',        *)
(* private), public) is true exactly when m = m'.                           *)
C2_VerifyIffSignedOfPrimes ==
    (pc = "verified" /\ BothPrime)
        => ((is_valid = "True") <=> (claimed = message))

C2_Witness ==
    /\ pc = "verified" /\ BothPrime /\ bits = MaxBits
    /\ message > 1 /\ signature # message
    /\ claimed = message /\ is_valid = "True"

\* p and q as the prime generator hands them out: odd, of bits // 2 bits.
Generated(v) == ExactBitLength(v, bits \div 2) /\ v % 2 = 1

Degenerate(b) ==
    Cardinality({ x \in 0 .. (Pow2(b \div 2) - 1) :
                    ExactBitLength(x, b \div 2) /\ x % 2 = 1 /\ IsPrimeRef(x) }) < 2

(* C9: generate_keypair(bits) with a degenerate size ends in an explicit    *)
(* failure; it does not stay in the redraw loops for ever.                  *)
C9_DegenerateFails ==
    (op = "generate_keypair" /\ Degenerate(bits)) ~> (pc = "raised")

-----------------------------------------------------------------------------
(* The key codec.  Text and bytes are sequences of ASCII codes. *)

Dashes == <<45, 45, 45, 45, 45>>
BeginWord == <<66, 69, 71, 73, 78, 32>>
EndWord == <<69, 78, 68, 32>>
PrivateKind == <<82, 83, 65, 32, 80, 82, 73, 86, 65, 84, 69, 32, 75, 69, 89>>
PublicKind == <<82, 83, 65, 32, 80, 85, 66, 76, 73, 67, 32, 75, 69, 89>>
Newline == 10
Comma == 44
Pad == 61

\* str(v) for an integer v >= 0: its decimal digits.
RECURSIVE DecimalDigits(_)
DecimalDigits(v) ==
    IF v < 10 THEN <<48 + v>>
    ELSE Append(DecimalDigits(v \div 10), 48 + (v % 10))

\* The base64 alphabet: the character of a 6-bit value.
B64Char(v) ==
    IF v < 26 THEN 65 + v
    ELSE IF v < 52 THEN 97 + (v - 26)
    ELSE IF v < 62 THEN 48 + (v - 52)
    ELSE IF v = 62 THEN 43 ELSE 47

\* The 6-bit value of a character, or -1 when it is not of the alphabet.
B64Value(c) ==
    IF c >= 65 /\ c <= 90 THEN c - 65
    ELSE IF c >= 97 /\ c <= 122 THEN c - 97 + 26
    ELSE IF c >= 48 /\ c <= 57 THEN c - 48 + 52
    ELSE IF c = 43 THEN 62
    ELSE IF c = 47 THEN 63 ELSE -1

\* base64.b64encode: three bytes to four characters, "=" padding at the end.
RECURSIVE b64encode(_)
b64encode(bs) ==
    IF Len(bs) = 0 THEN <<>>
    ELSE IF Len(bs) = 1
    THEN <<B64Char(bs[1] \div 4), B64Char((bs[1] % 4) * 16), Pad, Pad>>
    ELSE IF Len(bs) = 2
    THEN <<B64Char(bs[1] \div 4),
           B64Char((bs[1] % 4) * 16 + bs[2] \div 16),
           B64Char((bs[2] % 16) * 4), Pad>>
    ELSE <<B64Char(bs[1] \div 4),
           B64Char((bs[1] % 4) * 16 + bs[2] \div 16),
           B64Char((bs[2] % 16) * 4 + bs[3] \div 64),
           B64Char(bs[3] % 64)>>
         \o b64encode(SubSeq(bs, 4, Len(bs)))

\* base64.b64decode without validation, from position i with quad_pos,
\* leftchar and pads as binascii keeps them: characters outside the alphabet
\* are skipped, a complete pad sequence ends the input, and an unfinished
\* quad at the end is binascii.Error.
RECURSIVE A2bBase64(_, _, _, _, _, _)
A2bBase64(s, i, quad_pos, leftchar, pads, out) ==
    IF i > Len(s)
    THEN [err |-> IF quad_pos # 0 THEN "binascii.Error" ELSE "", bytes |-> out]
    ELSE IF s[i] = Pad
    THEN IF quad_pos >= 2 /\ quad_pos + pads + 1 >= 4
         THEN [err |-> "", bytes |-> out]
         ELSE A2bBase64(s, i + 1, quad_pos, leftchar,
                        IF quad_pos >= 2 THEN pads + 1 ELSE pads, out)
    ELSE IF B64Value(s[i]) < 0
    THEN A2bBase64(s, i + 1, quad_pos, leftchar, pads, out)
    ELSE LET v == B64Value(s[i])
         IN  IF quad_pos = 0
             THEN A2bBase64(s, i + 1, 1, v, 0, out)
             ELSE IF quad_pos = 1
             THEN A2bBase64(s, i + 1, 2, v % 16, 0,
                            Append(out, leftchar * 4 + v \div 16))
             ELSE IF quad_pos = 2
             THEN A2bBase64(s, i + 1, 3, v % 4, 0,
                            Append(out, leftchar * 16 + v \div 4))
             ELSE A2bBase64(s, i + 1, 0, 0, 0, Append(out, leftchar * 64 + v))

b64decode(s) == A2bBase64(s, 1, 0, 0, 0, <<>>)

\* The characters str.strip() removes.
IsSpace(c) == c \in {9, 10, 11, 12, 13, 28, 29, 30, 31, 32}

RECURSIVE lstrip(_)
lstrip(s) ==
    IF Len(s) > 0 /\ IsSpace(s[1]) THEN lstrip(Tail(s)) ELSE s

RECURSIVE rstrip(_)
rstrip(s) ==
    IF Len(s) > 0 /\ IsSpace(s[Len(s)]) THEN rstrip(SubSeq(s, 1, Len(s) - 1)) ELSE s

strip(s) == rstrip(lstrip(s))

\* s.split(sep) from position i, with the piece begun so far.
RECURSIVE SplitFrom(_, _, _, _)
SplitFrom(s, sep, i, piece) ==
    IF i > Len(s) THEN <<piece>>
    ELSE IF s[i] = sep THEN <<piece>> \o SplitFrom(s, sep, i + 1, <<>>)
    ELSE SplitFrom(s, sep, i + 1, Append(piece, s[i]))

split(s, sep) == SplitFrom(s, sep, 1, <<>>)

IsDigit(c) == c >= 48 /\ c <= 57

\* The digits-and-underscores body of an integer literal: a digit first and
\* last, no two underscores in a row.
DigitBody(t) ==
    /\ Len(t) > 0
    /\ IsDigit(t[1]) /\ IsDigit(t[Len(t)])
    /\ \A i \in 1 .. Len(t) : IsDigit(t[i]) \/ t[i] = 95
    /\ \A i \in 1 .. (Len(t) - 1) : ~(t[i] = 95 /\ t[i + 1] = 95)

RECURSIVE DigitsValue(_, _)
DigitsValue(t, acc) ==
    IF Len(t) = 0 THEN acc
    ELSE DigitsValue(Tail(t), IF t[1] = 95 THEN acc ELSE acc * 10 + (t[1] - 48))

\* int(s) on text: surrounding whitespace and a sign are allowed; anything
\* else than a decimal literal is ValueError.
int(s) ==
    LET t == strip(s)
        signed == Len(t) > 0 /\ t[1] \in {43, 45}
        body == IF signed THEN Tail(t) ELSE t
    IN  IF DigitBody(body)
        THEN [err |-> "",
              value |-> IF signed /\ t[1] = 45
                        THEN 0 - DigitsValue(body, 0) ELSE DigitsValue(body, 0)]
        ELSE [err |-> "ValueError", value |-> -1]

\* A mutant of save_key_to_pem: d is written whatever is_private says.
save_key_to_pem_keeps_d(k, private) ==
    LET key_type == IF private THEN PrivateKind ELSE PublicKind
        key_data == DecimalDigits(k.n) \o <<Comma>> \o DecimalDigits(k.e)
                    \o <<Comma>> \o DecimalDigits(k.d)
        encoded == b64encode(key_data)
    IN  Dashes \o BeginWord \o key_type \o Dashes \o <<Newline>>
        \o encoded \o <<Newline>>
        \o Dashes \o EndWord \o key_type \o Dashes

save_key_to_pem(k, private) ==
    LET key_type == IF private THEN PrivateKind ELSE PublicKind
        key_data == DecimalDigits(k.n) \o <<Comma>> \o DecimalDigits(k.e)
                    \o <<Comma>> \o DecimalDigits(IF private THEN k.d ELSE 0)
        encoded == b64encode(key_data)
    IN  Dashes \o BeginWord \o key_type \o Dashes \o <<Newline>>
        \o encoded \o <<Newline>>
        \o Dashes \o EndWord \o key_type \o Dashes

\* load_key_from_pem: the key, or the exception raised on the way.
load_key_from_pem(pem) ==
    LET lines == split(strip(pem), Newline)
        Failure(kind) == [err |-> kind, key |-> NoKey]
    IN  IF Len(lines) < 2 THEN Failure("IndexError")
        ELSE LET raw == b64decode(lines[2])
             IN  IF raw.err # "" THEN Failure(raw.err)
                 ELSE IF \E i \in 1 .. Len(raw.bytes) : raw.bytes[i] >= 128
                 THEN Failure("UnicodeDecodeError")
                 ELSE LET fields == split(raw.bytes, Comma)
                      IN  IF Len(fields) # 3 THEN Failure("ValueError")
                          ELSE IF \E i \in 1 .. 3 : int(fields[i]).err # ""
                          THEN Failure("ValueError")
                          ELSE [err |-> "",
                                key |-> RSAKey(int(fields[1]).value,
                                               int(fields[2]).value,
                                               int(fields[3]).value)]

\* Lines joined by "\n".
RECURSIVE JoinLines(_)
JoinLines(ls) ==
    IF Len(ls) = 0 THEN <<>>
    ELSE IF Len(ls) = 1 THEN ls[1]
    ELSE ls[1] \o <<Newline>> \o JoinLines(Tail(ls))

MalformedKinds ==
    { "empty", "payload_only", "no_footer", "no_header", "extra_line",
      "blank_line", "two_fields", "not_numeric", "truncated" }

\* A malformed variant of the block pem that encodes key k.
Malform(kind, pem, k) ==
    LET ls == split(pem, Newline)
        header == ls[1]
        payload == ls[2]
        footer == ls[3]
        two == DecimalDigits(k.n) \o <<Comma>> \o DecimalDigits(k.e)
    IN  CASE kind = "empty" -> <<>>
          [] kind = "payload_only" -> payload
          [] kind = "no_footer" -> JoinLines(<<header, payload>>)
          [] kind = "no_header" -> JoinLines(<<payload, footer>>)
          [] kind = "extra_line" -> JoinLines(<<header, payload, footer, payload>>)
          [] kind = "blank_line" -> JoinLines(<<header, <<>>, payload, footer>>)
          [] kind = "two_fields" -> JoinLines(<<header, b64encode(two), footer>>)
          [] kind = "not_numeric" ->
                JoinLines(<<header, b64encode(two \o <<Comma, 120>>), footer>>)
          [] kind = "truncated" ->
                JoinLines(<<header, SubSeq(payload, 1, Len(payload) - 1), footer>>)

\* The values of a key's fields: one to five decimal digits.
FieldValues == (0 .. MaxField) \cup {10, 255, 3233, 65537}

Save ==
    /\ pc = "codec_entry"
    /\ pem_str' = save_key_to_pem(key, is_private)
    /\ pc' = "saved"
    /\ UNCHANGED <<op, err, key, is_private, loaded>>
    /\ UNCHANGED <<primeVars, keyVars, transformVars>>

\* load_key_from_pem on the block save_key_to_pem wrote.
Load ==
    /\ pc = "saved"
    /\ LET res == load_key_from_pem(pem_str)
       IN  loaded' = res.key /\ err' = res.err
    /\ pc' = "loaded"
    /\ UNCHANGED <<op, key, is_private, pem_str>>
    /\ UNCHANGED <<primeVars, keyVars, transformVars>>

\* load_key_from_pem on a malformed variant of that block.
LoadMalformed ==
    /\ pc = "saved"
    /\ \E kind \in MalformedKinds :
          LET bad == Malform(kind, pem_str, key)
              res == load_key_from_pem(bad)
          IN  pem_str' = bad /\ loaded' = res.key /\ err' = res.err
    /\ pc' = "loaded_malformed"
    /\ UNCHANGED <<op, key, is_private>>
    /\ UNCHANGED <<primeVars, keyVars, transformVars>>

(* save_key_to_pem then load_key_from_pem on every key with fields in       *)
(* FieldValues and both values of is_private.                               *)

InitCodec ==
    /\ op = "codec" /\ pc = "codec_entry" /\ err = ""
    /\ PrimeIdle /\ KeyIdle /\ TransformIdle
    /\ key \in [n : FieldValues, e : FieldValues, d : FieldValues]
    /\ is_private \in BOOLEAN
    /\ pem_str = <<>>
    /\ loaded = NoKey

NextCodec == Save \/ Load \/ LoadMalformed

SpecCodec == InitCodec /\ [][NextCodec]_vars

(* C8 as stated: for every key k of non-negative integers and either value  *)
(* of is_private, load_key_from_pem(save_key_to_pem(k, is_private)) equals  *)
(* k in all three fields.                                                   *)
C8_RoundTrip ==
    pc = "loaded" => (err = "" /\ loaded = key)

(* C8 amended: load_key_from_pem(save_key_to_pem(k, is_private)) returns    *)
(* (k.n, k.e, k.d) when is_private is true and (k.n, k.e, 0) when it is     *)
(* false: it equals k exactly when is_private is true or k.d = 0.           *)
C8_RoundTripKeepsDOnlyIfPrivate ==
    pc = "loaded" =>
        /\ err = ""
        /\ loaded = RSAKey(key.n, key.e, IF is_private THEN key.d ELSE 0)
        /\ (loaded = key) <=> (is_private \/ key.d = 0)

C8_Witness ==
    /\ pc = "loaded" /\ is_private /\ loaded = key
    /\ key.n = 3233 /\ key.e = 65537 /\ key.d = MaxField

\* The text a decimal integer is written with: digits only.
IsDecimal(t) == Len(t) > 0 /\ \A i \in 1 .. Len(t) : IsDigit(t[i])

\* The second line decodes to three comma-separated decimal integers.
PayloadIsThreeDecimals(pem) ==
    LET ls == split(pem, Newline)
    IN  /\ Len(ls) >= 2
        /\ b64decode(ls[2]).err = ""
        /\ LET fields == split(b64decode(ls[2]).bytes, Comma)
           IN  Len(fields) = 3 /\ \A i \in 1 .. 3 : IsDecimal(fields[i])

\* A key block that is not header, payload, footer around three integers.
MalformedBlock(pem) ==
    Len(split(pem, Newline)) # 3 \/ ~PayloadIsThreeDecimals(pem)

(* C10: load_key_from_pem on a malformed key block (a line count other than *)
(* three, or a payload that is not three comma-separated decimal integers)  *)
(* fails with an explicit error and returns no key.                         *)
C10_MalformedRejected ==
    (pc = "loaded_malformed" /\ MalformedBlock(pem_str))
        => (err # "" /\ loaded = NoKey)

====
